---- MODULE Spec2Model ----
(***************************************************************************)
(* Model of the copy-from stream adapter (copy-from.js): a Writable that   *)
(* buffers the producer's chunks, frames them as CopyData messages once    *)
(* the backend has answered CopyInResponse, ends with CopyDone, aborts     *)
(* with CopyFail, and reports completion on ReadyForQuery.                  *)
(*                                                                         *)
(* The adapter's methods are operators over a record of the whole state    *)
(* (the fields of the object, the Writable's own bookkeeping, the          *)
(* transport and the histories the properties speak about); an action      *)
(* applies one handler, with every call it makes, to the current state.    *)
(***************************************************************************)
EXTENDS Integers, Sequences, FiniteSets, TLC

\* ------------------------------------------------------------------ bounds
MaxWrites == 3
MaxBufferOpt == 2
MaxStray == 2

\* --------------------------------------------------------------- constants
Int32Len == 4
CopyData == 100
CopyDone == 99

Null == "null"
Undefined == "undefined"
Conn == "connection"

\* the chunks a producer may write (Buffers, as sequences of bytes)
Chunks == {<<1>>, <<2, 3>>}

\* the errors a producer may pass to destroy(): none, or an Error with a message
NoErr == [given |-> FALSE, message |-> ""]
DestroyErrs == {NoErr, [given |-> TRUE, message |-> "boom"], [given |-> TRUE, message |-> ""]}
DefaultDestroyMsg == "NODE-PG-COPY-STREAMS destroy() was called"

\* the error the backend reports
BackendErr == [given |-> TRUE, message |-> "backend error"]

\* the CommandComplete texts the backend may send (characters as strings)
CompleteTexts ==
  { <<"C", "O", "P", "Y", " ", "1", "2">>,
    <<"C", "O", "P", "Y", " ", "7">>,
    <<"x", "C", "O", "P", "Y", " ", "0", "5", "x", "9">>,
    <<"C", "O", "P", "Y">>,
    <<"u", "n", "d", "e", "f", "i", "n", "e", "d">> }

\* continuation values
NoCb == [kind |-> "null", msg |-> ""]
FinalCb == [kind |-> "final", msg |-> ""]
CopyFailCb(msg) == [kind |-> "copyFail", msg |-> msg]

\* ----------------------------------------------------------------- helpers
RECURSIVE Flatten(_)
Flatten(chunks) ==
  IF chunks = <<>> THEN <<>> ELSE Head(chunks) \o Flatten(Tail(chunks))

RECURSIVE SumLen(_)
SumLen(chunks) ==
  IF chunks = <<>> THEN 0 ELSE Len(Head(chunks)) + SumLen(Tail(chunks))

\* faulty variant: the length is written least significant byte first
UInt32LE(n) ==
  << n % 256, (n \div 256) % 256, (n \div 65536) % 256, (n \div 16777216) % 256 >>


\* Buffer.writeUInt32BE(n): the four bytes of n, most significant first
UInt32BE(n) ==
  << (n \div 16777216) % 256, (n \div 65536) % 256, (n \div 256) % 256, n % 256 >>

\* entries of the record of what the adapter handed to the connection
QueryRec == [op |-> "query", bytes |-> <<>>, msg |-> ""]
WriteRec(bytes) == [op |-> "write", bytes |-> bytes, msg |-> ""]
CopyFailRec(msg) == [op |-> "copyFail", bytes |-> <<>>, msg |-> msg]

\* a TypeError thrown inside a handler (a call through a cleared reference)
Throw(s) == [s EXCEPT !.thrown = TRUE]

\* what the producer is told
Signal(s, what) == [s EXCEPT !.signals = Append(@, what)]

\* ------------------------------------------------- callbacks of the Writable
\* the callback the Writable passes to _write: the write is acknowledged
onwrite(s) == [s EXCEPT !.writing = FALSE, !.acked = @ + 1]

\* the callback the Writable passes to _final: the producer's completion
onfinal(s) == Signal(s, "finish")

\* the callback the Writable passes to _destroy, called with the producer's err
ondestroy(s, err) == Signal(s, IF err.given THEN "destroyError" ELSE "destroyed")

\* -------------------------------------------------------- adapter methods
\* faulty variant: the completion callback is called as soon as CopyDone is written
sendCopyDone_callingBack(s, cb) ==
  LET s1 == [s EXCEPT !.cb_ReadyForQuery = cb]
      finBuffer == <<CopyDone, 0, 0, 0, Int32Len>>
  IN IF s1.connection # Conn
       THEN Throw(s1)
       ELSE onfinal([s1 EXCEPT !.sent = Append(@, WriteRec(finBuffer))])


sendCopyDone(s, cb) ==
  LET s1 == [s EXCEPT !.cb_ReadyForQuery = cb]
      finBuffer == <<CopyDone, 0, 0, 0, Int32Len>>
  IN IF s1.connection # Conn
       THEN Throw(s1)
       ELSE [s1 EXCEPT !.sent = Append(@, WriteRec(finBuffer))]

\* calling a continuation: the write callback, the final callback, or the
\* closure () => this.sendCopyDone(cb) made by sendBatchesAndCopyDone
Invoke(s, cb) ==
  CASE cb = "onwrite" -> onwrite(s)
    [] cb = "onfinal" -> onfinal(s)
    [] cb = "sendCopyDone" -> sendCopyDone(s, "onfinal")

\* connection.stream.write(buffer) of the payload: true while the transport
\* has room, false once it is saturated
StreamWriteReturns(s) == s.room > 0 /\ ~s.saturated

\* faulty variant: the callback is called whatever stream.write returned
sendBuffer_ignoringBackpressure(s, buffer, cb) ==
  IF s.connection # Conn
    THEN Throw(s)
    ELSE
      LET lenBuffer == <<CopyData>> \o UInt32BE(Len(buffer) + Int32Len)
          s1 == [s EXCEPT !.sent = Append(@, WriteRec(lenBuffer))]
          s2 == [s1 EXCEPT !.sent = Append(@, WriteRec(buffer)),
                           !.room = IF @ > 0 THEN @ - 1 ELSE 0,
                           !.saturated = ~StreamWriteReturns(s1)]
      IN Invoke(s2, cb)


sendBuffer(s, buffer, cb) ==
  IF s.connection # Conn
    THEN Throw(s)
    ELSE
      LET lenBuffer == <<CopyData>> \o UInt32BE(Len(buffer) + Int32Len)
          s1 == [s EXCEPT !.sent = Append(@, WriteRec(lenBuffer))]
          s2 == [s1 EXCEPT !.sent = Append(@, WriteRec(buffer)),
                           !.room = IF @ > 0 THEN @ - 1 ELSE 0,
                           !.saturated = ~StreamWriteReturns(s1)]
      IN IF StreamWriteReturns(s1)
           THEN Invoke(s2, cb)
           ELSE [s2 EXCEPT !.drainCb = cb]

\* faulty variant: the flushed chunks are not removed from the buffer
sendBatches_keepingBuffer(s, cb) == sendBuffer(s, Flatten(s.bufferedChunks), cb)


\* faulty variant: the chunks are dropped but the byte count is not reset
sendBatches_keepingLength(s, cb) ==
  LET s1 == sendBuffer(s, Flatten(s.bufferedChunks), cb)
  IN IF s1.thrown
       THEN s1
       ELSE [s1 EXCEPT !.bufferedChunks = <<>>]


sendBatches(s, cb) ==
  LET s1 == sendBuffer(s, Flatten(s.bufferedChunks), cb)
  IN IF s1.thrown
       THEN s1
       ELSE [s1 EXCEPT !.bufferedChunks = <<>>, !.bufferedLength = 0]

\* faulty variant: the flush does not wait for the CopyInResponse
write_ignoringReady(s, chunk) ==
  LET s1 == [s EXCEPT !.bufferedChunks = Append(@, chunk),
                      !.bufferedLength = @ + Len(chunk)]
  IN IF s1.bufferedLength > s1.maxBuffer
       THEN sendBatches(s1, "onwrite")
       ELSE onwrite(s1)


\* faulty variant: above the threshold the write waits for the server to be ready
write_holdingBack(s, chunk) ==
  LET s1 == [s EXCEPT !.bufferedChunks = Append(@, chunk),
                      !.bufferedLength = @ + Len(chunk)]
  IN IF s1.bufferedLength > s1.maxBuffer
       THEN IF s1.gotCopyInResponse = TRUE THEN sendBatches(s1, "onwrite") ELSE s1
       ELSE onwrite(s1)


_write(s, chunk) ==
  LET s1 == [s EXCEPT !.bufferedChunks = Append(@, chunk),
                      !.bufferedLength = @ + Len(chunk)]
  IN IF s1.bufferedLength > s1.maxBuffer /\ s1.gotCopyInResponse = TRUE
       THEN sendBatches(s1, "onwrite")
       ELSE onwrite(s1)

\* the closure `done` of _destroy
sendCopyFail(s, msg) ==
  IF s.connection # Conn
    THEN Throw(s)
    ELSE [s EXCEPT !.sent = Append(@, CopyFailRec(msg))]

DestroyMsg(err) == IF err.given THEN err.message ELSE DefaultDestroyMsg

\* faulty variant: CopyFail is sent at once, whether or not the server is ready
destroy_sendingAtOnce(s, err) ==
  IF s.cb_ReadyForQuery # Null
    THEN ondestroy(s, err)
    ELSE sendCopyFail([s EXCEPT !.cb_destroy = "ondestroy"], DestroyMsg(err))

\* faulty variant: no check that CopyDone has been sent already
destroy_withoutDoneGuard(s, err) ==
  LET s1 == [s EXCEPT !.cb_destroy = "ondestroy"]
      msg == DestroyMsg(err)
  IN IF s1.gotCopyInResponse
       THEN sendCopyFail(s1, msg)
       ELSE [s1 EXCEPT !.cb_CopyInResponse = CopyFailCb(msg)]


_destroy(s, err) ==
  IF s.cb_ReadyForQuery # Null
    THEN ondestroy(s, err)
    ELSE
      LET s1 == [s EXCEPT !.cb_destroy = "ondestroy"]
          msg == DestroyMsg(err)
      IN IF s1.gotCopyInResponse
           THEN sendCopyFail(s1, msg)
           ELSE [s1 EXCEPT !.cb_CopyInResponse = CopyFailCb(msg)]

\* faulty variant: CopyDone is sent after starting the flush as well as by its callback
sendBatchesAndCopyDone_twice(s, cb) ==
  IF s.bufferedLength > 0
    THEN LET s1 == sendBatches(s, "sendCopyDone")
         IN IF s1.thrown THEN s1 ELSE sendCopyDone(s1, cb)
    ELSE sendCopyDone(s, cb)


\* faulty variant: CopyDone is written before the rest of the buffer is flushed
sendBatchesAndCopyDone_doneFirst(s, cb) ==
  IF s.bufferedLength > 0
    THEN LET s1 == sendCopyDone(s, cb)
         IN IF s1.thrown THEN s1 ELSE sendBatches(s1, "onwrite")
    ELSE sendCopyDone(s, cb)


sendBatchesAndCopyDone(s, cb) ==
  IF s.bufferedLength > 0
    THEN sendBatches(s, "sendCopyDone")
    ELSE sendCopyDone(s, cb)

\* faulty variant: end-of-input does not wait for the CopyInResponse
final_withoutWaiting(s) == sendBatchesAndCopyDone(s, "onfinal")


_final(s) ==
  IF s.gotCopyInResponse
    THEN sendBatchesAndCopyDone(s, "onfinal")
    ELSE [s EXCEPT !.cb_CopyInResponse = FinalCb]

\* ------------------------------------------------ row count of the report
Digits == <<"0", "1", "2", "3", "4", "5", "6", "7", "8", "9">>
IsDigit(c) == \E d \in 1..10 : Digits[d] = c
DigitVal(c) == (CHOOSE d \in 1..10 : Digits[d] = c) - 1

\* where /COPY (\d+)/ matches in text: the positions of the first digit
MatchStarts(text) ==
  { i \in 1..Len(text) :
      /\ i >= 6
      /\ SubSeq(text, i - 5, i - 1) = <<"C", "O", "P", "Y", " ">>
      /\ IsDigit(text[i]) }

\* the greedy run of digits from position i
RECURSIVE DigitRun(_, _)
DigitRun(text, i) ==
  IF i <= Len(text) /\ IsDigit(text[i])
    THEN <<text[i]>> \o DigitRun(text, i + 1)
    ELSE <<>>

\* parseInt(digits, 10)
RECURSIVE ParseInt(_)
ParseInt(digits) ==
  IF digits = <<>>
    THEN 0
    ELSE 10 * ParseInt(SubSeq(digits, 1, Len(digits) - 1)) + DigitVal(digits[Len(digits)])

\* ---------------------------------------- the Writable the adapter extends
doWrite(s, chunk) ==
  _write([s EXCEPT !.writing = TRUE, !.written = Append(@, chunk)], chunk)

\* hand the chunks the Writable holds to _write, one at a time, while no
\* write is outstanding
RECURSIVE clearBuffer(_)
clearBuffer(s) ==
  IF s.corked \/ s.destroyed \/ s.writing \/ s.thrown \/ s.wbuf = <<>>
    THEN s
    ELSE clearBuffer(doWrite([s EXCEPT !.wbuf = Tail(@)], Head(s.wbuf)))

\* _final is called once, when the input has ended and every write is acknowledged
finishMaybe(s) ==
  IF s.ending /\ ~s.destroyed /\ s.wbuf = <<>> /\ ~s.writing /\ ~s.finalCalled /\ ~s.thrown
    THEN _final([s EXCEPT !.finalCalled = TRUE])
    ELSE s

uncork(s) == IF s.corked THEN clearBuffer([s EXCEPT !.corked = FALSE]) ELSE s

\* producer: write(chunk)
write(s, chunk) ==
  LET s1 == [s EXCEPT !.produced = Append(@, chunk)]
  IN IF s1.writing \/ s1.corked
       THEN [s1 EXCEPT !.wbuf = Append(@, chunk)]
       ELSE doWrite(s1, chunk)

\* producer: end()
end(s) == finishMaybe([uncork(s) EXCEPT !.ending = TRUE])

\* producer: destroy(err)
destroy(s, err) == _destroy([s EXCEPT !.destroyed = TRUE, !.destroyArg = err], err)

\* the transport's 'drain' event runs the listener sendBuffer registered
drain(s) ==
  LET cb == s.drainCb
      s1 == Invoke([s EXCEPT !.drainCb = "none", !.saturated = FALSE], cb)
  IN IF cb = "onwrite" THEN finishMaybe(clearBuffer(s1)) ELSE s1

\* --------------------------------------------- handlers the connection calls
submit(s) == [s EXCEPT !.connection = Conn, !.sent = Append(@, QueryRec)]

\* faulty variant: the error is always emitted, a pending cb_destroy is ignored
handleError_alwaysEmitting(s, e) ==
  [Signal(s, "errorEvent") EXCEPT !.connection = Null]


handleError(s, e) ==
  LET s1 == IF s.cb_destroy # Null
              THEN Signal([s EXCEPT !.cb_destroy = Null], "abortError")
              ELSE Signal(s, "errorEvent")
  IN [s1 EXCEPT !.connection = Null]

\* faulty variant: the continuation is run without recording that the server is ready
handleCopyInResponse_withoutFlag(s) ==
  LET s2 == IF ~s.destroyed THEN uncork(s) ELSE s
      cb == s2.cb_CopyInResponse
  IN IF s2.thrown THEN s2
     ELSE CASE cb.kind = "null" -> s2
            [] cb.kind = "final" -> sendBatchesAndCopyDone(s2, "onfinal")
            [] cb.kind = "copyFail" -> sendCopyFail(s2, cb.msg)


handleCopyInResponse(s) ==
  LET s1 == [s EXCEPT !.gotCopyInResponse = TRUE]
      s2 == IF ~s1.destroyed THEN uncork(s1) ELSE s1
      cb == s2.cb_CopyInResponse
  IN IF s2.thrown THEN s2
     ELSE CASE cb.kind = "null" -> s2
            [] cb.kind = "final" -> sendBatchesAndCopyDone(s2, "onfinal")
            [] cb.kind = "copyFail" -> sendCopyFail(s2, cb.msg)

\* faulty variant: only the first digit after the marker is taken
handleCommandComplete_firstDigit(s, text) ==
  LET starts == MatchStarts(text)
  IN IF starts # {}
       THEN LET i == CHOOSE j \in starts : \A k \in starts : j <= k
            IN [s EXCEPT !.rowCount = DigitVal(text[i])]
       ELSE s


handleCommandComplete(s, text) ==
  LET starts == MatchStarts(text)
  IN IF starts # {}
       THEN LET i == CHOOSE j \in starts : \A k \in starts : j <= k
            IN [s EXCEPT !.rowCount = ParseInt(DigitRun(text, i))]
       ELSE s

handleReadyForQuery(s) ==
  IF s.cb_ReadyForQuery = Null
    THEN Throw(s)
    ELSE [Invoke(s, s.cb_ReadyForQuery) EXCEPT !.connection = Null]

\* ------------------------------------------------------------------- state
VARIABLES
  rowCount, gotCopyInResponse, bufferedChunks, bufferedLength, maxBuffer,
  cb_CopyInResponse, cb_ReadyForQuery, cb_destroy, connection,
  corked, wbuf, writing, ending, finalCalled, destroyed,
  sent, drainCb, saturated, phase,
  produced, written, acked, signals, destroyArg, thrown, lastOp, strays,
  report

vars ==
  << rowCount, gotCopyInResponse, bufferedChunks, bufferedLength, maxBuffer,
     cb_CopyInResponse, cb_ReadyForQuery, cb_destroy, connection,
     corked, wbuf, writing, ending, finalCalled, destroyed,
     sent, drainCb, saturated, phase,
     produced, written, acked, signals, destroyArg, thrown, lastOp, strays,
     report >>

\* the current state as the record the operators work on; `room` is how many
\* payload writes the transport takes in this step before it is saturated
Cur(room) ==
  [ rowCount |-> rowCount, gotCopyInResponse |-> gotCopyInResponse,
    bufferedChunks |-> bufferedChunks, bufferedLength |-> bufferedLength,
    maxBuffer |-> maxBuffer, cb_CopyInResponse |-> cb_CopyInResponse,
    cb_ReadyForQuery |-> cb_ReadyForQuery, cb_destroy |-> cb_destroy,
    connection |-> connection, corked |-> corked, wbuf |-> wbuf,
    writing |-> writing, ending |-> ending, finalCalled |-> finalCalled,
    destroyed |-> destroyed, sent |-> sent, drainCb |-> drainCb,
    saturated |-> saturated, destroyArg |-> destroyArg,
    produced |-> produced, written |-> written, acked |-> acked,
    signals |-> signals, thrown |-> thrown, room |-> room ]

Becomes(s) ==
  /\ rowCount' = s.rowCount
  /\ gotCopyInResponse' = s.gotCopyInResponse
  /\ bufferedChunks' = s.bufferedChunks
  /\ bufferedLength' = s.bufferedLength
  /\ maxBuffer' = s.maxBuffer
  /\ cb_CopyInResponse' = s.cb_CopyInResponse
  /\ cb_ReadyForQuery' = s.cb_ReadyForQuery
  /\ cb_destroy' = s.cb_destroy
  /\ connection' = s.connection
  /\ corked' = s.corked
  /\ wbuf' = s.wbuf
  /\ writing' = s.writing
  /\ ending' = s.ending
  /\ finalCalled' = s.finalCalled
  /\ destroyed' = s.destroyed
  /\ sent' = s.sent
  /\ drainCb' = s.drainCb
  /\ saturated' = s.saturated
  /\ destroyArg' = s.destroyArg
  /\ produced' = s.produced
  /\ written' = s.written
  /\ acked' = s.acked
  /\ signals' = s.signals
  /\ thrown' = s.thrown

\* new CopyStreamQuery(text, options): the constructor, which corks the stream
Init ==
  /\ rowCount = 0
  /\ gotCopyInResponse = FALSE
  /\ bufferedChunks = <<>>
  /\ bufferedLength = 0
  /\ maxBuffer \in 1..MaxBufferOpt
  /\ cb_CopyInResponse = NoCb
  /\ cb_ReadyForQuery = Null
  /\ cb_destroy = Null
  /\ connection = Undefined
  /\ corked = TRUE
  /\ wbuf = <<>>
  /\ writing = FALSE
  /\ ending = FALSE
  /\ finalCalled = FALSE
  /\ destroyed = FALSE
  /\ sent = <<>>
  /\ drainCb = "none"
  /\ saturated = FALSE
  /\ destroyArg = NoErr
  /\ phase = "created"
  /\ produced = <<>>
  /\ written = <<>>
  /\ acked = 0
  /\ signals = <<>>
  /\ thrown = FALSE
  /\ lastOp = "constructor"
  /\ strays = 0
  /\ report = <<>>

\* what the backend has received: the first of CopyDone / CopyFail, if any
IsCopyDoneFrame(r) == r.op = "write" /\ r.bytes = <<CopyDone, 0, 0, 0, Int32Len>>
IsCopyFail(r) == r.op = "copyFail"
DoneAt == { i \in 1..Len(sent) : IsCopyDoneFrame(sent[i]) }
FailAt == { i \in 1..Len(sent) : IsCopyFail(sent[i]) }
BackendGotCopyDone == DoneAt # {} /\ \A f \in FailAt : \E d \in DoneAt : d < f
BackendGotCopyFail == FailAt # {} /\ \A d \in DoneAt : \E f \in FailAt : f < d

\* ----------------------------------------------------------------- actions
Rooms == 0..MaxWrites

Submit ==
  /\ ~thrown /\ phase = "created"
  /\ Becomes(submit(Cur(0)))
  /\ phase' = "query" /\ lastOp' = "submit" /\ UNCHANGED strays /\ UNCHANGED report

Write(chunk) ==
  /\ ~thrown /\ ~ending /\ ~destroyed /\ Len(produced) < MaxWrites
  /\ \E room \in Rooms : Becomes(write(Cur(room), chunk))
  /\ lastOp' = "write" /\ UNCHANGED <<phase, strays>> /\ UNCHANGED report

End ==
  /\ ~thrown /\ ~ending /\ ~destroyed
  /\ \E room \in Rooms : Becomes(end(Cur(room)))
  /\ lastOp' = "end" /\ UNCHANGED <<phase, strays>> /\ UNCHANGED report

Destroy(err) ==
  /\ ~thrown /\ ~destroyed
  /\ Becomes(destroy(Cur(0), err))
  /\ lastOp' = "destroy" /\ UNCHANGED <<phase, strays>> /\ UNCHANGED report

Drain ==
  /\ ~thrown /\ drainCb # "none"
  /\ \E room \in Rooms : Becomes(drain(Cur(room)))
  /\ lastOp' = "drain" /\ UNCHANGED <<phase, strays>> /\ UNCHANGED report

CopyInResponse ==
  /\ ~thrown /\ phase = "query"
  /\ \E room \in Rooms : Becomes(handleCopyInResponse(Cur(room)))
  /\ phase' = "copyin" /\ lastOp' = "handleCopyInResponse" /\ UNCHANGED strays /\ UNCHANGED report

Error ==
  /\ ~thrown /\ phase \in {"query", "copyin", "complete"}
  /\ Becomes(handleError(Cur(0), BackendErr))
  /\ phase' = "closed" /\ lastOp' = "handleError" /\ UNCHANGED strays /\ UNCHANGED report

CommandComplete(text) ==
  /\ ~thrown /\ phase = "copyin" /\ BackendGotCopyDone
  /\ Becomes(handleCommandComplete(Cur(0), text))
  /\ phase' = "complete" /\ lastOp' = "handleCommandComplete" /\ UNCHANGED strays
  /\ report' = text

ReadyForQuery ==
  /\ ~thrown /\ phase = "complete"
  /\ Becomes(handleReadyForQuery(Cur(0)))
  /\ phase' = "closed" /\ lastOp' = "handleReadyForQuery" /\ UNCHANGED strays /\ UNCHANGED report

Next ==
  \/ Submit
  \/ \E chunk \in Chunks : Write(chunk)
  \/ End
  \/ \E err \in DestroyErrs : Destroy(err)
  \/ Drain
  \/ CopyInResponse
  \/ Error
  \/ \E text \in CompleteTexts : CommandComplete(text)
  \/ ReadyForQuery

Spec == Init /\ [][Next]_vars

\* ---------------------------------------------- a connection that misbehaves
\* After the operation has ended (ReadyForQuery or an error was handled) the
\* connection calls a handler once more.
StrayCopyInResponse ==
  /\ ~thrown /\ phase = "closed" /\ strays < MaxStray
  /\ \E room \in Rooms : Becomes(handleCopyInResponse(Cur(room)))
  /\ strays' = strays + 1 /\ lastOp' = "stray" /\ UNCHANGED <<phase, report>>

StrayError ==
  /\ ~thrown /\ phase = "closed" /\ strays < MaxStray
  /\ Becomes(handleError(Cur(0), BackendErr))
  /\ strays' = strays + 1 /\ lastOp' = "stray" /\ UNCHANGED <<phase, report>>

StrayCommandComplete(text) ==
  /\ ~thrown /\ phase = "closed" /\ strays < MaxStray
  /\ Becomes(handleCommandComplete(Cur(0), text))
  /\ strays' = strays + 1 /\ lastOp' = "stray" /\ UNCHANGED phase
  /\ report' = text

StrayReadyForQuery ==
  /\ ~thrown /\ phase = "closed" /\ strays < MaxStray
  /\ Becomes(handleReadyForQuery(Cur(0)))
  /\ strays' = strays + 1 /\ lastOp' = "stray" /\ UNCHANGED <<phase, report>>

NextOpen ==
  \/ Next
  \/ StrayCopyInResponse
  \/ StrayError
  \/ \E text \in CompleteTexts : StrayCommandComplete(text)
  \/ StrayReadyForQuery

SpecOpen == Init /\ [][NextOpen]_vars

\* ------------------------------------------------- what the backend reads
\* the bytes written to connection.stream, in order
RECURSIVE WireBytes(_)
WireBytes(log) ==
  IF log = <<>> THEN <<>>
  ELSE (IF Head(log).op = "write" THEN Head(log).bytes ELSE <<>>) \o WireBytes(Tail(log))

FromUInt32BE(b) == ((b[1] * 256 + b[2]) * 256 + b[3]) * 256 + b[4]

\* the byte stream cut into frames: tag, 4-byte length, length - 4 payload
\* bytes; a rest that is no whole frame becomes a frame tagged "partial"
RECURSIVE Frames(_)
Frames(bytes) ==
  IF bytes = <<>> THEN <<>>
  ELSE IF Len(bytes) < 1 + Int32Len
    THEN << [tag |-> "partial", length |-> 0, payload |-> bytes] >>
  ELSE
    LET length == FromUInt32BE(SubSeq(bytes, 2, 1 + Int32Len))
        last == 1 + length
    IN IF length < Int32Len \/ last > Len(bytes)
         THEN << [tag |-> "partial", length |-> length, payload |-> bytes] >>
         ELSE << [tag |-> bytes[1], length |-> length,
                  payload |-> SubSeq(bytes, 2 + Int32Len, last)] >>
              \o Frames(SubSeq(bytes, last + 1, Len(bytes)))

SentFrames == Frames(WireBytes(sent))

RECURSIVE Payloads(_)
Payloads(frames) ==
  IF frames = <<>> THEN <<>>
  ELSE (IF Head(frames).tag = CopyData THEN Head(frames).payload ELSE <<>>)
       \o Payloads(Tail(frames))

HasSignal(what) == \E i \in 1..Len(signals) : signals[i] = what
CountSignal(what) == Cardinality({ i \in 1..Len(signals) : signals[i] = what })
Completed == HasSignal("finish")
ErrorReported == HasSignal("destroyError") \/ HasSignal("abortError") \/ HasSignal("errorEvent")

\* =================================================================== claims

\* C1: while _gotCopyInResponse is false nothing has been written to the
\* connection's stream (no CopyData header, no payload, no other frame), and
\* the chunks handed to _write so far are all held, in order, in
\* bufferedChunks: none was sent and none was dropped.
C1_NoDataBeforeReady ==
  ~gotCopyInResponse =>
    /\ \A i \in 1..Len(sent) : sent[i].op # "write"
    /\ bufferedChunks = written
    /\ ~destroyed => Flatten(bufferedChunks) \o Flatten(wbuf) = Flatten(produced)

\* chunks above the threshold were handed to _write before the server was ready
C1_Witness ==
  /\ ~gotCopyInResponse /\ connection = Conn
  /\ Len(written) >= 2 /\ SumLen(written) > maxBuffer

\* C2: exactly one of {completion, error} is reported to the producer: never
\* both a completion callback and an error callback/event, and, once the
\* connection has ended the operation, never neither.
C2_ExactlyOneOutcome ==
  /\ ~(Completed /\ ErrorReported)
  /\ (phase = "closed" /\ ~thrown) => (Completed \/ ErrorReported)

\* C3: when the operation has completed normally, exactly one CopyDone frame
\* was written, it is the last frame and the last thing handed to the
\* connection, and it has length 4 and no payload; with no write at all it is
\* the only frame.
C3_OneTerminationFrameLast ==
  Completed =>
    LET fs == SentFrames
    IN /\ Cardinality({ i \in 1..Len(fs) : fs[i].tag = CopyDone }) = 1
       /\ fs[Len(fs)] = [tag |-> CopyDone, length |-> Int32Len, payload |-> <<>>]
       /\ IsCopyDoneFrame(sent[Len(sent)])
       /\ produced = <<>> => Len(fs) = 1

\* a normal completion after data frames were sent
C3_Witness == Completed /\ Len(SentFrames) >= 3 /\ Len(produced) >= 2

\* a normal completion where end() came before any write
C3_WitnessNoWrite == Completed /\ produced = <<>>

\* C4: the completion callback is called only by handleReadyForQuery, after
\* the CopyDone frame was written in an earlier step, and in that step the
\* connection reference is dropped; never by end() or by sending CopyDone.
FinishCount == CountSignal("finish")
C4_CompletionOnlyOnReadyForQuery ==
  [][ FinishCount' > FinishCount =>
        /\ lastOp' = "handleReadyForQuery"
        /\ DoneAt # {}
        /\ sent' = sent
        /\ connection' = Null ]_vars

C4_Witness == Completed /\ connection = Null /\ lastOp = "handleReadyForQuery"

\* C5: a CopyDone frame is written only when the server is ready; end() before
\* readiness sends nothing and leaves the flush and CopyDone to the
\* awaiting-ready continuation, which the ready event runs.
C5_TerminationDeferredUntilReady ==
  [][ /\ DoneAt' # DoneAt => gotCopyInResponse'
      /\ (lastOp' = "end" /\ finalCalled' /\ ~gotCopyInResponse) =>
           (sent' = sent /\ cb_CopyInResponse' = FinalCb /\ cb_ReadyForQuery' = Null)
      /\ (cb_CopyInResponse = FinalCb /\ ~gotCopyInResponse /\ gotCopyInResponse') =>
           (DoneAt' # {} \/ drainCb' = "sendCopyDone") ]_vars

\* end() came before readiness and the deferred flush and CopyDone were sent
C5_Witness == cb_CopyInResponse = FinalCb /\ DoneAt # {} /\ Len(SentFrames) >= 2

\* C6: after destroy() before readiness no CopyFail is sent while the server
\* is not ready; once it is ready exactly one CopyFail has been sent, with the
\* error's message, or the default text when destroy() was given no error.
ReasonText == IF destroyArg.given THEN destroyArg.message ELSE DefaultDestroyMsg
C6_AbortDeferredUntilReady ==
  /\ (destroyed /\ ~gotCopyInResponse) =>
       (FailAt = {} /\ cb_CopyInResponse = CopyFailCb(ReasonText))
  /\ (cb_CopyInResponse.kind = "copyFail" /\ gotCopyInResponse) =>
       (Cardinality(FailAt) = 1 /\ \A i \in FailAt : sent[i].msg = ReasonText)

C6_Witness ==
  /\ gotCopyInResponse /\ cb_CopyInResponse.kind = "copyFail"
  /\ destroyArg.given /\ FailAt # {}

C8_NoOpAfterTerminal ==
  [][ lastOp' = "stray" /\ strays' > strays =>
        (sent' = sent /\ signals' = signals /\ ~thrown') ]_vars

\* C9: when the operation has completed normally, the payloads of the
\* CopyData frames on the wire, concatenated in the order sent, are the
\* chunks the producer wrote, concatenated in the order written.
C9_PayloadsEqualWrites ==
  Completed => Payloads(SentFrames) = Flatten(produced)

\* a completion after three writes that went out in more than one data frame
C9_Witness ==
  /\ Completed /\ Len(produced) >= 3
  /\ Cardinality({ i \in 1..Len(SentFrames) : SentFrames[i].tag = CopyData }) >= 2

\* C10: a write that brings bufferedLength above maxBuffer while the server is
\* ready hands the whole buffer to the transport as one CopyData frame in the
\* same step; it is acknowledged in that step only if stream.write returned
\* true, otherwise the acknowledgment waits for 'drain', and until then no
\* chunk is acknowledged or taken into the buffer.  Between handlers a ready,
\* live adapter never holds acknowledged bytes above the threshold.
C10_AckAfterFlush ==
  /\ [](( gotCopyInResponse /\ ~destroyed /\ ~thrown /\ ~writing)
          => bufferedLength <= maxBuffer)
  /\ [][ /\ ( /\ lastOp' = "write" /\ gotCopyInResponse /\ ~writing /\ ~corked
              /\ connection = Conn
              /\ bufferedLength + Len(produced'[Len(produced')]) > maxBuffer ) =>
              LET chunk == produced'[Len(produced')]
                  bytes == Flatten(bufferedChunks) \o chunk
              IN /\ sent' = sent \o
                       << WriteRec(<<CopyData>> \o UInt32BE(Len(bytes) + Int32Len)),
                          WriteRec(bytes) >>
                 /\ bufferedChunks' = <<>> /\ bufferedLength' = 0
                 /\ IF saturated'
                      THEN acked' = acked /\ writing' /\ drainCb' = "onwrite"
                      ELSE acked' = acked + 1 /\ ~writing' /\ drainCb' = "none"
         /\ (drainCb = "onwrite" /\ lastOp' # "drain") =>
              ( /\ acked' = acked /\ written' = written /\ writing'
                /\ bufferedChunks' = bufferedChunks /\ drainCb' = "onwrite" )
         /\ (drainCb = "onwrite" /\ lastOp' = "drain") => acked' > acked ]_vars

\* the transport is saturated, the write is unacknowledged, and a later write
\* of the producer is held back by the Writable
C10_Witness ==
  /\ saturated /\ drainCb = "onwrite" /\ writing /\ gotCopyInResponse
  /\ acked = Len(written) - 1 /\ wbuf # <<>> /\ bufferedChunks = <<>>

\* C11: while the server is not ready, every chunk handed to _write has been
\* acknowledged by the end of the step that handed it over: no write is
\* outstanding, no 'drain' listener is registered and nothing was written to
\* the stream, however far bufferedLength is above maxBuffer.
C11_ImmediateAckBeforeReady ==
  ~gotCopyInResponse =>
    /\ acked = Len(written)
    /\ ~writing
    /\ drainCb = "none" /\ ~saturated
    /\ \A i \in 1..Len(sent) : sent[i].op # "write"

\* three writes were acknowledged before readiness, well above the threshold
C11_Witness ==
  /\ ~gotCopyInResponse /\ connection = Conn
  /\ acked >= 3 /\ bufferedLength > maxBuffer + 1

\* C12: in the order in which things were handed to the connection, nothing
\* that follows a CopyDone frame or a CopyFail request is a data frame (a
\* CopyData header or a payload): the only stream write that can follow is a
\* CopyDone frame.
C12_NoDataAfterDoneOrFail ==
  \A i \in DoneAt \cup FailAt :
    \A j \in (i + 1)..Len(sent) :
      sent[j].op = "write" => IsCopyDoneFrame(sent[j])

\* a CopyFail was sent while a flush was waiting for 'drain' and the Writable
\* still held a chunk; the drain has happened since
C12_Witness ==
  /\ FailAt # {} /\ wbuf # <<>> /\ lastOp = "drain"
  /\ \E i \in 1..Len(sent) : sent[i].op = "write" /\ ~IsCopyDoneFrame(sent[i])

\* C13, as claimed: handleError drops the connection reference and, when a
\* continuation is pending (awaiting-ready, awaiting-finished or
\* awaiting-abort-ack), hands the error to it instead of emitting 'error';
\* the 'error' event is emitted only when none is pending.
AwaitingReady == cb_CopyInResponse.kind # "null" /\ ~gotCopyInResponse
AwaitingFinished == cb_ReadyForQuery # Null
AwaitingAbortAck == cb_destroy # Null
C13_ErrorGoesToPendingContinuation ==
  [][ lastOp' = "handleError" =>
        /\ connection' = Null
        /\ IF AwaitingReady \/ AwaitingFinished \/ AwaitingAbortAck
             THEN signals' # Append(signals, "errorEvent")
             ELSE signals' = Append(signals, "errorEvent") ]_vars

\* C13, amended: handleError hands the error to the awaiting-abort-ack
\* continuation (cb_destroy) when that one is pending, and clears it;
\* otherwise it emits 'error', also when the awaiting-ready or the
\* awaiting-finished continuation is pending: those two are neither called
\* nor cleared.  In both cases nothing is sent and the connection reference
\* is dropped.
C13_ErrorGoesToAbortAckOrEvent ==
  [][ lastOp' = "handleError" =>
        /\ connection' = Null
        /\ sent' = sent
        /\ cb_CopyInResponse' = cb_CopyInResponse
        /\ cb_ReadyForQuery' = cb_ReadyForQuery
        /\ cb_destroy' = Null
        /\ IF AwaitingAbortAck
             THEN signals' = Append(signals, "abortError")
             ELSE signals' = Append(signals, "errorEvent") ]_vars

\* an error while the awaiting-finished continuation was pending came out as
\* an 'error' event
C13_Witness ==
  /\ lastOp = "handleError" /\ cb_ReadyForQuery # Null /\ connection = Null
  /\ signals # <<>> /\ signals[Len(signals)] = "errorEvent"

\* an error while the awaiting-abort-ack continuation was pending went to it
C13_WitnessAbortAck ==
  /\ lastOp = "handleError" /\ connection = Null
  /\ signals # <<>> /\ signals[Len(signals)] = "abortError"

\* C14: the writes to the stream are, in order, either a 5-byte CopyData
\* header whose big-endian length is the length of the payload written right
\* after it plus 4, followed by exactly that payload, or the 5-byte CopyDone
\* frame with length 4 and no payload.
StreamWrites == SelectSeq(sent, LAMBDA r : r.op = "write")

RECURSIVE WellFramed(_)
WellFramed(ws) ==
  IF ws = <<>> THEN TRUE
  ELSE LET h == Head(ws).bytes
       IN IF Len(h) = 1 + Int32Len /\ h[1] = CopyData
            THEN /\ Len(ws) >= 2
                 /\ ((h[2] * 256 + h[3]) * 256 + h[4]) * 256 + h[5]
                      = Len(ws[2].bytes) + 4
                 /\ WellFramed(Tail(Tail(ws)))
            ELSE /\ h = <<CopyDone, 0, 0, 0, 4>>
                 /\ WellFramed(Tail(ws))

C14_FrameLayout ==
  /\ WellFramed(StreamWrites)
  /\ \A i \in 1..Len(SentFrames) :
       /\ SentFrames[i].tag \in {CopyData, CopyDone}
       /\ SentFrames[i].length = Len(SentFrames[i].payload) + 4
       /\ SentFrames[i].tag = CopyDone => SentFrames[i].payload = <<>>

\* a data frame with a payload of several chunks, then the termination frame
C14_Witness ==
  /\ DoneAt # {}
  /\ \E i \in 1..Len(SentFrames) :
       SentFrames[i].tag = CopyData /\ Len(SentFrames[i].payload) >= 4

\* C15: at most one of the three continuation slots cb_CopyInResponse,
\* cb_ReadyForQuery and cb_destroy is non-null.
PendingSlots ==
  (IF cb_CopyInResponse.kind # "null" THEN {"cb_CopyInResponse"} ELSE {})
  \cup (IF cb_ReadyForQuery # Null THEN {"cb_ReadyForQuery"} ELSE {})
  \cup (IF cb_destroy # Null THEN {"cb_destroy"} ELSE {})
C15_AtMostOnePending == Cardinality(PendingSlots) <= 1

\* C15, amended: the awaiting-ready continuation (set, server not yet ready)
\* and the awaiting-finished continuation (cb_ReadyForQuery) are never
\* outstanding together: cb_ReadyForQuery is set only once the server is
\* ready.  The slots are not cleared when run, and cb_destroy can be pending
\* together with either of the other two.
C15_ReadyAndFinishedNotTogether ==
  /\ ~(AwaitingReady /\ AwaitingFinished)
  /\ AwaitingFinished => gotCopyInResponse

\* a deferred end-of-input was resumed by the ready event: cb_CopyInResponse
\* still holds the closure it ran and cb_ReadyForQuery is pending
C15_Witness ==
  /\ cb_CopyInResponse = FinalCb /\ cb_ReadyForQuery # Null
  /\ gotCopyInResponse /\ ~Completed

\* C16: between handlers bufferedLength is the sum of the lengths of the
\* chunks in bufferedChunks.  The count goes down only by a flush: in every
\* step the bytes buffered before, followed by the chunks handed to _write in
\* the step, are the payload bytes sent in the step followed by the bytes
\* buffered after it; a step that brings a positive count to zero sends them.
SentPayload == Payloads(SentFrames)
C16_BufferedLengthMatchesChunks ==
  /\ [](bufferedLength = SumLen(bufferedChunks))
  /\ [][ LET handed == SubSeq(written', Len(written) + 1, Len(written'))
             after == Payloads(Frames(WireBytes(sent')))
             flushed == SubSeq(after, Len(SentPayload) + 1, Len(after))
         IN /\ Flatten(bufferedChunks) \o Flatten(handed)
                 = flushed \o Flatten(bufferedChunks')
            /\ bufferedLength' < bufferedLength =>
                 Len(flushed) >= bufferedLength
            /\ (bufferedLength > 0 /\ bufferedLength' = 0) =>
                 (flushed # <<>> /\ bufferedChunks' = <<>>) ]_vars

\* chunks were flushed and the buffer has been filled again since
C16_Witness ==
  /\ bufferedLength > 0 /\ bufferedLength = SumLen(bufferedChunks)
  /\ SentPayload # <<>> /\ Len(written) >= 3

\* C17: handleCommandComplete sets rowCount to the decimal number that
\* follows the first "COPY " in the report when a digit follows it; otherwise
\* (no marker, no digit, or no report: the text "undefined") rowCount keeps
\* its value and nothing is thrown.  Either way nothing is sent, no
\* continuation is called, and the ready flag, the buffer, the continuation
\* slots and the connection reference stay as they were.
Marker == <<"C", "O", "P", "Y", " ">>
DigitChars == {"0", "1", "2", "3", "4", "5", "6", "7", "8", "9"}
MarkerAt(text) ==
  { i \in 1..(Len(text) - Len(Marker)) :
      SubSeq(text, i, i + Len(Marker) - 1) = Marker /\ text[i + Len(Marker)] \in DigitChars }
ValueOf(c) ==
  CASE c = "0" -> 0 [] c = "1" -> 1 [] c = "2" -> 2 [] c = "3" -> 3 [] c = "4" -> 4
    [] c = "5" -> 5 [] c = "6" -> 6 [] c = "7" -> 7 [] c = "8" -> 8 [] c = "9" -> 9
\* the number written from position i on, acc being the value read so far
RECURSIVE NumberFrom(_, _, _)
NumberFrom(text, i, acc) ==
  IF i > Len(text) \/ text[i] \notin DigitChars
    THEN acc
    ELSE NumberFrom(text, i + 1, 10 * acc + ValueOf(text[i]))

C17_RowCountFromReport ==
  [][ lastOp' = "handleCommandComplete" =>
        /\ IF MarkerAt(report') # {}
             THEN LET i == CHOOSE j \in MarkerAt(report') : \A k \in MarkerAt(report') : j <= k
                  IN rowCount' = NumberFrom(report', i + Len(Marker), 0)
             ELSE rowCount' = rowCount
        /\ ~thrown'
        /\ UNCHANGED << sent, signals, gotCopyInResponse, bufferedChunks, bufferedLength,
                        cb_CopyInResponse, cb_ReadyForQuery, cb_destroy, connection,
                        drainCb, acked, written, wbuf, writing >> ]_vars

\* a report "COPY 12" was handled: the row count is 12
C17_Witness ==
  /\ lastOp = "handleCommandComplete" /\ rowCount = 12
  /\ report = <<"C", "O", "P", "Y", " ", "1", "2">>

\* a report without a number was handled: the row count is as constructed
C17_WitnessNoMatch ==
  /\ lastOp = "handleCommandComplete" /\ rowCount = 0
  /\ report = <<"C", "O", "P", "Y">>

\* C18: every frame write and every abort request is issued while the adapter
\* holds its connection reference: no step (a producer write, end or abort, a
\* drain callback, a continuation resumed by a connection event) ends in the
\* TypeError of sending through the reference that handleError or
\* handleReadyForQuery has cleared.
C18_NoSendThroughClearedConnection == ~(thrown /\ connection = Null)

\* C19: an operation never sends both a CopyFail request and a CopyDone
\* frame; in particular no CopyDone follows a CopyFail when the producer
\* aborts while the final flush waits for the drain signal, or after
\* end-of-input was deferred until the connection is ready.
C19_NeverBothFailAndDone == ~(FailAt # {} /\ DoneAt # {})

\* C20: whenever the connection delivers ReadyForQuery to the adapter, during
\* the copy or after an error report, cb_ReadyForQuery is set, so
\* handleReadyForQuery never calls an unset continuation.
C20_ReadyForQueryFindsContinuation ==
  [][ (ReadyForQuery \/ StrayReadyForQuery) => cb_ReadyForQuery # Null ]_vars

\* the same for the connection that delivers nothing after an error report:
\* ReadyForQuery follows CommandComplete, which follows the CopyDone frame
C20_SetWhenCopyCompleted == (phase = "complete") => (cb_ReadyForQuery # Null)

====
